---- MODULE Spec2Model ----
(***************************************************************************)
(* Model of the idex-sdk-js WebSocket client (WebSocketClient) and of its  *)
(* message normalizer (transform.ts).                                      *)
(*                                                                         *)
(* The transport (isomorphic-ws) and the caller are the environment: the   *)
(* transport opens and closes sockets and fires their callbacks, the       *)
(* caller invokes the public methods in any order.  One TLA+ step is one   *)
(* run-to-completion turn of the JavaScript event loop.                    *)
(***************************************************************************)
EXTENDS Integers, Sequences, FiniteSets, TLC

\* ------------------------------------------------------------------ bounds
MaxSockets == 2      \* sockets one client instance creates in a behaviour
MaxConnects == 2     \* connect() calls that can be pending at once
MaxSubs == 3         \* length of a subscription list given to the client
MaxFills == 1        \* fills in the fill list of an order update

VARIABLES
  shouldReconnectAutomatically, \* constructor option
  hasTokenManager,     \* websocketAuthTokenFetch was given to the constructor
  reconnectAttempt,    \* this.reconnectAttempt
  webSocket,           \* this.webSocket: index into sockets, 0 = null
  sockets,             \* every socket created so far: readyState and onclose
  timers,              \* pending reconnect timers: their delay in seconds
  connects,            \* per socket, the connect() calls waiting for it to open
  resolved,            \* the last step resolved a connect() call
  fired,               \* listener sets dispatched by the last step
  listeners,           \* the four listener sets, each in insertion order
  invoked,             \* the listeners the last step called, in call order
  disconnected,        \* the caller's last connection call was disconnect()
  tokens,              \* token manager: last token resolved for each wallet
  sub,                 \* the subscribe() call that is awaiting its tokens
  call,                \* the last finished subscription-management call
  inbound,             \* the last inbound frame the transport delivered
  response             \* what the response listeners were last called with

vars == <<shouldReconnectAutomatically, hasTokenManager, reconnectAttempt,
          webSocket, sockets, timers, connects, resolved, fired, listeners,
          invoked, disconnected, tokens, sub, call, inbound, response>>

\* the state of the connection and of the client's options
conn == <<shouldReconnectAutomatically, hasTokenManager, reconnectAttempt,
          webSocket, sockets, timers, connects, listeners, disconnected>>

\* ----------------------------------------------------------------- helpers
RECURSIVE Pow2(_)
Pow2(n) == IF n = 0 THEN 1 ELSE 2 * Pow2(n - 1)

RemoveAt(s, i) == [j \in 1..(Len(s) - 1) |-> IF j < i THEN s[j] ELSE s[j + 1]]

ReadyStates == {"CONNECTING", "OPEN", "CLOSING", "CLOSED"}

Wallets == {"W1", "W2"}

\* a value that is undefined in JavaScript (cid, token)
Undefined == [type |-> "undefined"]

NoCall == [op |-> "none", subscriptions |-> <<>>, cid |-> Undefined,
           connectedAtCall |-> FALSE, error |-> "none", frames |-> <<>>,
           readyState |-> "none"]

NoFrame == [kind |-> "none"]

NoSub == [pc |-> "idle", op |-> "none", subscriptions |-> <<>>,
          cid |-> Undefined, connectedAtCall |-> FALSE, requested |-> <<>>,
          pending |-> {}]

\* --------------------------------------------------- WebSocketClient state
\* isConnected(): this.webSocket?.readyState === WebSocket.OPEN
IsConnected ==
  webSocket # 0 /\ sockets[webSocket].readyState = "OPEN"

\* createWebSocket(): a new socket in CONNECTING state with the handlers bound;
\* connectFired counts the times the connect listeners were dispatched for it
NewSocket == [readyState |-> "CONNECTING", onclose |-> TRUE, connectFired |-> 0]

\* WebSocket.close(): CONNECTING and OPEN sockets start closing
CloseSocket(sock) ==
  IF sock.readyState \in {"CONNECTING", "OPEN"}
  THEN [sock EXCEPT !.readyState = "CLOSING"]
  ELSE sock

\* destroyWebSocket() without "close()": the socket is only let go
DestroyWebSocketNoClose(socks, ws) ==
  [socks EXCEPT ![ws].onclose = FALSE]

\* destroyWebSocket() without "onclose = null": the close handler stays bound
DestroyWebSocketKeepHandler(socks, ws) ==
  [socks EXCEPT ![ws] = CloseSocket(socks[ws])]

\* destroyWebSocket(): onclose = null, close(), this.webSocket = null
DestroyWebSocket(socks, ws) ==
  [socks EXCEPT ![ws] = CloseSocket([socks[ws] EXCEPT !.onclose = FALSE])]

\* -------------------------------------------------------------- listeners
\* the listener sets of the client and the callbacks a caller registers
ListenerSets == {"connect", "disconnect", "error", "response"}

Listeners == {"L1", "L2"}

\* Set.prototype.add: a member that is already in the set is not added again
SetAdd(set, member) ==
  IF \E i \in DOMAIN set : set[i] = member THEN set ELSE Append(set, member)

\* Set.prototype.forEach visiting the members last added first
ForEachReversed(set) == [i \in DOMAIN set |-> set[Len(set) + 1 - i]]

\* Set.prototype.forEach: every member once, in insertion order
ForEach(set) == set

\* this.<name>Listeners.forEach((listener) => listener(...)) for each of the
\* named sets in turn: the calls made, in order
RECURSIVE Dispatch(_)
Dispatch(names) ==
  IF names = <<>> THEN <<>>
  ELSE LET members == ForEach(listeners[Head(names)])
       IN [i \in DOMAIN members |-> [set |-> Head(names), listener |-> members[i]]]
          \o Dispatch(Tail(names))

\* a step that dispatches the named listener sets
Fire(names) ==
  /\ fired' = names
  /\ invoked' = Dispatch(names)

\* the constructor
Init ==
  /\ shouldReconnectAutomatically \in BOOLEAN
  /\ hasTokenManager \in BOOLEAN
  /\ reconnectAttempt = 0
  /\ webSocket = 0
  /\ sockets = <<>>
  /\ timers = <<>>
  /\ connects = <<>>
  /\ resolved = FALSE
  /\ fired = <<>>
  /\ listeners = [set \in ListenerSets |-> <<>>]
  /\ invoked = <<>>
  /\ disconnected = FALSE
  /\ tokens = [w \in Wallets |-> Undefined]
  /\ sub = NoSub
  /\ call = NoCall
  /\ inbound = NoFrame
  /\ response = NoFrame

\* onConnect(), onDisconnect(), onError(), onResponse(): this.<name>Listeners.add
On(name, listener) ==
  /\ listeners' = [listeners EXCEPT ![name] = SetAdd(@, listener)]
  /\ resolved' = FALSE
  /\ Fire(<<>>)
  /\ UNCHANGED <<shouldReconnectAutomatically, hasTokenManager,
                 reconnectAttempt, webSocket, sockets, timers, connects,
                 disconnected, tokens, sub, call, inbound, response>>

OnConnect(listener) == On("connect", listener)

OnDisconnect(listener) == On("disconnect", listener)

OnResponse(listener) == On("response", listener)

\* ------------------------------------------------------------- connect()
\* the number of connect() calls waiting for a socket to open
RECURSIVE Sum(_)
Sum(s) == IF s = <<>> THEN 0 ELSE Head(s) + Sum(Tail(s))

Pending == Sum(connects)

\* the body of connect() up to its await: early return, createWebSocket,
\* first (synchronous) waitForOpen check, which cannot see OPEN here
ConnectBody ==
  IF IsConnected
  THEN /\ resolved' = TRUE
       /\ UNCHANGED <<webSocket, sockets, connects>>
  ELSE /\ Pending < MaxConnects
       /\ webSocket # 0 \/ Len(sockets) < MaxSockets
       /\ sockets' = IF webSocket = 0 THEN Append(sockets, NewSocket) ELSE sockets
       /\ webSocket' = IF webSocket = 0 THEN Len(sockets) + 1 ELSE webSocket
       /\ connects' = IF webSocket = 0
                      THEN Append(connects, 1)
                      ELSE [connects EXCEPT ![webSocket] = @ + 1]
       /\ resolved' = FALSE

\* the caller calls connect()
Connect ==
  /\ ConnectBody
  /\ Fire(<<>>)
  /\ disconnected' = FALSE
  /\ UNCHANGED <<shouldReconnectAutomatically, hasTokenManager, listeners,
                 reconnectAttempt, timers, tokens, sub, call, inbound, response>>

\* waitForOpen testing "no longer CONNECTING" instead of OPEN
SocketLeftConnecting(s) == sockets[s].readyState # "CONNECTING"

\* waitForOpen(): ws.readyState === WebSocket.OPEN
SocketIsOpen(s) == sockets[s].readyState = "OPEN"

\* a waitForOpen poll of a connect() call that waits for socket s: on OPEN the
\* promise resolves and the rest of connect() runs; otherwise the poll
\* re-arms itself
WaitForOpen(s) ==
  /\ connects[s] > 0
  /\ IF SocketIsOpen(s)
     THEN /\ reconnectAttempt' = 0
          /\ Fire(<<"connect">>)
          /\ sockets' = [sockets EXCEPT ![s].connectFired = @ + 1]
          /\ connects' = [connects EXCEPT ![s] = @ - 1]
          /\ resolved' = TRUE
     ELSE /\ Fire(<<>>)
          /\ resolved' = FALSE
          /\ UNCHANGED <<reconnectAttempt, sockets, connects>>
  /\ UNCHANGED <<shouldReconnectAutomatically, hasTokenManager, listeners,
                 disconnected, webSocket, timers, tokens, sub, call, inbound,
                 response>>

\* ----------------------------------------------------------- disconnect()
Disconnect ==
  /\ resolved' = FALSE
  /\ disconnected' = TRUE
  /\ IF webSocket = 0
     THEN /\ Fire(<<>>)
          /\ UNCHANGED <<webSocket, sockets>>
     ELSE /\ sockets' = DestroyWebSocket(sockets, webSocket)
          /\ webSocket' = 0
          /\ Fire(<<"disconnect">>)
  /\ UNCHANGED <<shouldReconnectAutomatically, hasTokenManager, listeners,
                 reconnectAttempt, timers, connects, tokens, sub, call, inbound, response>>

\* ------------------------------------------------------ transport events
\* the transport finishes the opening handshake (no onopen handler is bound)
TransportOpen(s) ==
  /\ resolved' = FALSE
  /\ sockets[s].readyState = "CONNECTING"
  /\ sockets' = [sockets EXCEPT ![s].readyState = "OPEN"]
  /\ Fire(<<>>)
  /\ UNCHANGED <<shouldReconnectAutomatically, hasTokenManager, listeners,
                 disconnected,
                 reconnectAttempt, webSocket, timers, connects, tokens,
                 sub, call, inbound, response>>

\* the peer starts the closing handshake: the socket is CLOSING, no callback yet
TransportClosing(s) ==
  /\ resolved' = FALSE
  /\ sockets[s].readyState = "OPEN"
  /\ sockets' = [sockets EXCEPT ![s].readyState = "CLOSING"]
  /\ Fire(<<>>)
  /\ UNCHANGED <<shouldReconnectAutomatically, hasTokenManager, listeners,
                 disconnected,
                 reconnectAttempt, webSocket, timers, connects, tokens,
                 sub, call, inbound, response>>

\* reconnect(): schedule connect() after 2 ** reconnectAttempt seconds
Reconnect ==
  /\ timers' = Append(timers, Pow2(reconnectAttempt))
  /\ reconnectAttempt' = reconnectAttempt + 1

\* handleWebSocketClose() reconnecting whatever the policy
HandleWebSocketCloseAlwaysReconnect ==
  /\ webSocket' = 0
  /\ Fire(<<"disconnect">>)
  /\ Reconnect

\* handleWebSocketClose()
HandleWebSocketClose ==
  /\ webSocket' = 0
  /\ Fire(<<"disconnect">>)
  /\ IF shouldReconnectAutomatically
     THEN Reconnect
     ELSE UNCHANGED <<timers, reconnectAttempt>>

\* the transport closes socket s and fires its close callback, if one is bound
TransportClose(s) ==
  /\ resolved' = FALSE
  /\ sockets[s].readyState # "CLOSED"
  /\ sockets' = [sockets EXCEPT ![s].readyState = "CLOSED"]
  /\ IF sockets[s].onclose
     THEN HandleWebSocketClose
     ELSE /\ Fire(<<>>)
          /\ UNCHANGED <<webSocket, timers, reconnectAttempt>>
  /\ UNCHANGED <<shouldReconnectAutomatically, hasTokenManager, listeners,
                 disconnected, connects,
                 tokens, sub, call, inbound, response>>

\* handleWebSocketError(): the error listeners run, nothing else changes
TransportError(s) ==
  /\ resolved' = FALSE
  /\ sockets[s].readyState # "CLOSED"
  /\ Fire(<<"error">>)
  /\ UNCHANGED <<shouldReconnectAutomatically, hasTokenManager, listeners,
                 disconnected,
                 reconnectAttempt, webSocket, sockets, timers, connects,
                 tokens, sub, call, inbound, response>>

\* a reconnect timer fires: setTimeout(this.connect.bind(this), ...)
ReconnectTimer(i) ==
  /\ i \in 1..Len(timers)
  /\ timers' = RemoveAt(timers, i)
  /\ ConnectBody
  /\ Fire(<<>>)
  /\ UNCHANGED <<shouldReconnectAutomatically, hasTokenManager, listeners,
                 disconnected,
                 reconnectAttempt, tokens, sub, call, inbound, response>>

\* ------------------------------------------------------------ subscriptions
\* the topics that need a wallet token (request.AuthenticatedSubscriptionName)
AuthenticatedSubscriptionName == {"balances", "orders"}

\* a string value, as opposed to undefined
Str(v) == [type |-> "string", value |-> v]

\* the token the injected fetch capability returns for a wallet
TokenOf(w) == Str(<<"token", w>>)

\* the subscriptions a caller puts in the list given to subscribe: public
\* and authenticated topics, a public one that carries a wallet included
SubscriptionUniverse ==
  { [name |-> "tickers", markets |-> "ETH-USDC"],
    [name |-> "tickers", markets |-> "ETH-USDC", wallet |-> "W1"],
    [name |-> "balances", wallet |-> "W1"],
    [name |-> "orders", markets |-> "ETH-USDC", wallet |-> "W1"],
    [name |-> "orders", markets |-> "ETH-USDC", wallet |-> "W2"] }

\* the subscriptions given to subscribeAuthenticated, whose type requires a
\* wallet string: the empty string is one
AuthenticatedUniverse ==
  { [name |-> "balances", wallet |-> ""],
    [name |-> "balances", wallet |-> "W1"],
    [name |-> "orders", markets |-> "ETH-USDC", wallet |-> "W1"],
    [name |-> "orders", markets |-> "ETH-USDC", wallet |-> "W2"] }

\* the subscriptions given to subscribeUnauthenticated and to unsubscribe
UnauthenticatedUniverse ==
  { [name |-> "tickers", markets |-> "ETH-USDC"],
    [name |-> "tickers", markets |-> "ETH-USDC", wallet |-> "W1"] }

Range(s) == {s[i] : i \in DOMAIN s}

\* all lists of at most n different elements of S
RECURSIVE ListsUpTo(_, _)
ListsUpTo(S, n) ==
  IF n = 0 THEN {<<>>}
  ELSE LET shorter == ListsUpTo(S, n - 1)
       IN shorter \cup
          UNION {{Append(l, x) : x \in S \ Range(l)} : l \in shorter}

\* isAuthenticatedSubscription()
IsAuthenticatedSubscription(subscription) ==
  subscription.name \in AuthenticatedSubscriptionName

\* the truthiness of subscription.wallet: present and not the empty string
HasTruthyWallet(subscription) ==
  "wallet" \in DOMAIN subscription /\ subscription.wallet # ""

\* removeWalletFromSdkSubscription(): copy, delete wallet if it is truthy
RemoveWalletFromSdkSubscription(subscription) ==
  IF HasTruthyWallet(subscription)
  THEN [k \in (DOMAIN subscription) \ {"wallet"} |-> subscription[k]]
  ELSE subscription

\* subscribe(): subscriptions.map(removeWalletFromSdkSubscription)
MapRemoveWallet(subscriptions) ==
  [i \in DOMAIN subscriptions |-> RemoveWalletFromSdkSubscription(subscriptions[i])]

\* subscribe(): authSubscriptions
AuthSubscriptions(subscriptions) ==
  SelectSeq(subscriptions, IsAuthenticatedSubscription)

\* subscribe(): uniqueWallets
UniqueWallets(subscriptions) ==
  LET auth == AuthSubscriptions(subscriptions)
  IN {auth[i].wallet : i \in {j \in DOMAIN auth : HasTruthyWallet(auth[j])}}

\* subscribe(): the wallets of the authenticated subscriptions that have one
AuthWallets(subscriptions) ==
  LET withWallet == SelectSeq(AuthSubscriptions(subscriptions), HasTruthyWallet)
  IN [i \in DOMAIN withWallet |-> withWallet[i].wallet]

\* Array.from(new Set(list)): the first occurrence of each element, in order
RECURSIVE ArrayFromSet(_)
ArrayFromSet(list) ==
  IF list = <<>> THEN <<>>
  ELSE LET before == ArrayFromSet(SubSeq(list, 1, Len(list) - 1))
       IN IF list[Len(list)] \in Range(before)
          THEN before
          ELSE Append(before, list[Len(list)])

\* getToken asked for the wallet of every authenticated subscription
GetTokenRequestsPerSubscription(subscriptions) == AuthWallets(subscriptions)

\* subscribe(): uniqueWallets.map(getToken), the wallets getToken is asked for
GetTokenRequests(subscriptions) == ArrayFromSet(AuthWallets(subscriptions))

\* subscribe(): publicSubscriptions
IsPublicSubscription(subscription) == ~IsAuthenticatedSubscription(subscription)

PublicSubscriptions(subscriptions) ==
  SelectSeq(subscriptions, IsPublicSubscription)

\* tokenManager.getLastCachedToken(subscription.wallet): undefined for a
\* wallet no token was resolved for, a missing wallet included
GetLastCachedToken(subscription) ==
  IF HasTruthyWallet(subscription) /\ subscription.wallet \in DOMAIN tokens
  THEN tokens[subscription.wallet]
  ELSE Undefined

\* JSON.stringify(payload): members whose value is undefined are left out
JsonStringify(payload) ==
  [k \in {j \in DOMAIN payload :
            ~(j \in {"cid", "token"} /\ payload[j] = Undefined)} |-> payload[k]]

\* the checks without the one for the token manager
SubscribePrecheckWalletOnly(subscriptions) ==
  IF AuthSubscriptions(subscriptions) # <<>>
     /\ UniqueWallets(subscriptions) = {}
  THEN "MissingWallet"
  ELSE "none"

\* subscribe(): the checks made before any token is requested
SubscribePrecheck(subscriptions) ==
  LET auth == AuthSubscriptions(subscriptions)
  IN IF auth # <<>> /\ ~hasTokenManager THEN "Configuration"
     ELSE IF auth # <<>> /\ UniqueWallets(subscriptions) = {} THEN "MissingWallet"
     ELSE "none"

\* subscribe(): the frame of one authenticated subscription (several wallets)
AuthFrame(cid, authSubscription) ==
  JsonStringify([cid |-> cid, method |-> "subscribe",
                 subscriptions |-> <<RemoveWalletFromSdkSubscription(authSubscription)>>,
                 token |-> GetLastCachedToken(authSubscription)])

\* subscribe() taking the single-frame path for any number of wallets
SubscribeFramesCombined(subscriptions, cid) ==
  LET uniqueWallets == UniqueWallets(subscriptions)
  IN << JsonStringify(
          [cid |-> cid, method |-> "subscribe",
           subscriptions |-> MapRemoveWallet(subscriptions),
           token |-> IF uniqueWallets = {} THEN Undefined
                     ELSE tokens[CHOOSE w \in uniqueWallets : TRUE]]) >>

\* subscribe() taking the split path for any number of wallets
SubscribeFramesSplit(subscriptions, cid) ==
  LET auth == AuthSubscriptions(subscriptions)
      public == PublicSubscriptions(subscriptions)
  IN (IF public # <<>>
      THEN << JsonStringify([cid |-> cid, method |-> "subscribe",
                             subscriptions |-> public]) >>
      ELSE <<>>)
     \o [i \in DOMAIN auth |-> AuthFrame(cid, auth[i])]

\* subscribe(): the payloads given to sendMessage after the tokens resolved
SubscribeFrames(subscriptions, cid) ==
  LET uniqueWallets == UniqueWallets(subscriptions)
      auth == AuthSubscriptions(subscriptions)
      public == PublicSubscriptions(subscriptions)
  IN IF Cardinality(uniqueWallets) = 1
     THEN << JsonStringify(
               [cid |-> cid, method |-> "subscribe",
                subscriptions |-> MapRemoveWallet(subscriptions),
                token |-> tokens[CHOOSE w \in uniqueWallets : TRUE]]) >>
     ELSE (IF public # <<>>
           THEN << JsonStringify([cid |-> cid, method |-> "subscribe",
                                  subscriptions |-> public]) >>
           ELSE <<>>)
          \o [i \in DOMAIN auth |-> AuthFrame(cid, auth[i])]

\* ------------------------------------------------------------------ sends
\* throwIfDisconnected() testing only that a socket exists
ThrowIfNoSocket == webSocket = 0

\* throwIfDisconnected(): whether it throws
ThrowIfDisconnected == ~IsConnected

\* sendMessage() for the payloads of one synchronous run: throwIfDisconnected(),
\* then webSocket.send(); the socket cannot change between the sends of a run.
\* A run without payloads does not call sendMessage at all.
SendMessages(frames) ==
  IF frames = <<>>
  THEN [error |-> "none", frames |-> <<>>, readyState |-> "none"]
  ELSE IF ThrowIfDisconnected
  THEN [error |-> "NotConnected", frames |-> <<>>, readyState |-> "none"]
  ELSE [error |-> "none", frames |-> frames,
        readyState |-> sockets[webSocket].readyState]

Finished(op, subscriptions, cid, connectedAtCall, outcome) ==
  [op |-> op, subscriptions |-> subscriptions, cid |-> cid,
   connectedAtCall |-> connectedAtCall, error |-> outcome.error,
   frames |-> outcome.frames, readyState |-> outcome.readyState]

Failed(error) == [error |-> error, frames |-> <<>>, readyState |-> "none"]

\* listSubscriptions()
ListSubscriptions ==
  /\ resolved' = FALSE
  /\ call = NoCall
  /\ call' = Finished("listSubscriptions", <<>>, Undefined, IsConnected,
                      SendMessages(<<[method |-> "subscriptions"]>>))
  /\ Fire(<<>>)
  /\ UNCHANGED <<conn, tokens, sub, inbound, response>>

\* unsubscribe(subscriptions)
Unsubscribe(subscriptions) ==
  /\ resolved' = FALSE
  /\ call = NoCall
  /\ call' = Finished("unsubscribe", subscriptions, Undefined, IsConnected,
                      SendMessages(<<[method |-> "unsubscribe",
                                      subscriptions |-> subscriptions]>>))
  /\ Fire(<<>>)
  /\ UNCHANGED <<conn, tokens, sub, inbound, response>>

\* subscribe(subscriptions, cid) up to its await: the checks, then getToken
\* for every distinct wallet.  op names the method the caller used.
SubscribeCall(op, subscriptions, cid) ==
  /\ resolved' = FALSE
  /\ sub.pc = "idle"
  /\ call = NoCall
  /\ LET error == SubscribePrecheck(subscriptions)
     IN IF error # "none"
        THEN /\ call' = Finished(op, subscriptions, cid, IsConnected, Failed(error))
             /\ sub' = sub
        ELSE /\ sub' = [pc |-> "awaiting", op |-> op,
                        subscriptions |-> subscriptions, cid |-> cid,
                        connectedAtCall |-> IsConnected,
                        requested |-> GetTokenRequests(subscriptions),
                        pending |-> UniqueWallets(subscriptions)]
             /\ call' = NoCall
  /\ Fire(<<>>)
  /\ UNCHANGED <<conn, tokens, inbound, response>>

\* the token fetch of a wallet the call awaits resolves
TokenResolve(w) ==
  /\ resolved' = FALSE
  /\ sub.pc = "awaiting"
  /\ w \in sub.pending
  /\ tokens' = [tokens EXCEPT ![w] = TokenOf(w)]
  /\ sub' = [sub EXCEPT !.pending = sub.pending \ {w}]
  /\ Fire(<<>>)
  /\ UNCHANGED <<conn, call, inbound, response>>

\* the token fetch of a wallet the call awaits rejects: Promise.all rejects
TokenReject(w) ==
  /\ resolved' = FALSE
  /\ sub.pc = "awaiting"
  /\ w \in sub.pending
  /\ call' = Finished(sub.op, sub.subscriptions, sub.cid, sub.connectedAtCall,
                      Failed("TokenFetch"))
  /\ sub' = NoSub
  /\ Fire(<<>>)
  /\ UNCHANGED <<conn, tokens, inbound, response>>

\* subscribe() after its await: the sends
SubscribeSend ==
  /\ resolved' = FALSE
  /\ sub.pc = "awaiting"
  /\ sub.pending = {}
  /\ call' = Finished(sub.op, sub.subscriptions, sub.cid, sub.connectedAtCall,
                      SendMessages(SubscribeFrames(sub.subscriptions, sub.cid)))
  /\ sub' = NoSub
  /\ Fire(<<>>)
  /\ UNCHANGED <<conn, tokens, inbound, response>>

\* subscribe(subscriptions, cid) called by the caller
Subscribe ==
  \E subscriptions \in ListsUpTo(SubscriptionUniverse, MaxSubs) :
    SubscribeCall("subscribe", subscriptions, Str("cid-1"))

\* subscribeAuthenticated(subscriptions): this.subscribe(subscriptions)
SubscribeAuthenticated ==
  \E subscriptions \in ListsUpTo(AuthenticatedUniverse, MaxSubs) :
    SubscribeCall("subscribeAuthenticated", subscriptions, Undefined)

\* subscribeUnauthenticated(subscriptions): this.subscribe(subscriptions)
SubscribeUnauthenticated ==
  \E subscriptions \in ListsUpTo(UnauthenticatedUniverse, MaxSubs) :
    SubscribeCall("subscribeUnauthenticated", subscriptions, Undefined)

\* the caller has seen the outcome of its call and goes on to the next one
Return ==
  /\ resolved' = FALSE
  /\ call # NoCall
  /\ call' = NoCall
  /\ Fire(<<>>)
  /\ UNCHANGED <<conn, tokens, sub, inbound, response>>

\* the lists given to unsubscribe
UnsubscribeLists == {<<>>, <<[name |-> "tickers", markets |-> "ETH-USDC"]>>}

\* ------------------------------------------------------ message normalizer
Num(n) == [type |-> "number", value |-> n]

Arr(a) == [type |-> "array", value |-> a]

\* an object without members
EmptyObject == [k \in {} |-> Undefined]

\* object.key: undefined when the object has no such member
Get(object, key) == IF key \in DOMAIN object THEN object[key] ELSE Undefined

\* whether a value is truthy: undefined, 0 and the empty string are not
Truthy(v) ==
  CASE v.type = "undefined" -> FALSE
    [] v.type = "number" -> v.value # 0
    [] v.type = "string" -> v.value # ""
    [] OTHER -> TRUE

\* { ...a, ...b }
Merge(a, b) ==
  [k \in (DOMAIN a) \cup (DOMAIN b) |-> IF k \in DOMAIN b THEN b[k] ELSE a[k]]

\* ...(cond && { key: value }): spreading a falsy value adds no member
Spread(cond, key, value) ==
  IF Truthy(cond) THEN [k \in {key} |-> value] ELSE EmptyObject

TransformTickersMessage(ticker) ==
  Merge([market |-> Get(ticker, "m"), time |-> Get(ticker, "t"),
         open |-> Get(ticker, "o"), high |-> Get(ticker, "h"),
         low |-> Get(ticker, "l"), close |-> Get(ticker, "c"),
         closeQuantity |-> Get(ticker, "Q"), baseVolume |-> Get(ticker, "v"),
         quoteVolume |-> Get(ticker, "q"), percentChange |-> Get(ticker, "P"),
         ask |-> Get(ticker, "a"), bid |-> Get(ticker, "b"),
         sequence |-> Get(ticker, "u")],
        Spread(Get(ticker, "n"), "numTrades", Get(ticker, "n")))

TransformTradesMessage(trade) ==
  [market |-> Get(trade, "m"), fillId |-> Get(trade, "i"),
   price |-> Get(trade, "p"), quantity |-> Get(trade, "q"),
   quoteQuantity |-> Get(trade, "Q"), time |-> Get(trade, "t"),
   makerSide |-> Get(trade, "s"), sequence |-> Get(trade, "u")]

TransformCandlesMessage(candle) ==
  [market |-> Get(candle, "m"), time |-> Get(candle, "t"),
   interval |-> Get(candle, "i"), start |-> Get(candle, "s"),
   end |-> Get(candle, "e"), open |-> Get(candle, "o"),
   high |-> Get(candle, "h"), low |-> Get(candle, "l"),
   close |-> Get(candle, "c"), volume |-> Get(candle, "v"),
   numTrades |-> Get(candle, "n"), sequence |-> Get(candle, "u")]

TransformL1orderbooksMessage(l1orderbook) ==
  [market |-> Get(l1orderbook, "m"), time |-> Get(l1orderbook, "t"),
   bidPrice |-> Get(l1orderbook, "b"), bidQuantity |-> Get(l1orderbook, "B"),
   askPrice |-> Get(l1orderbook, "a"), askQuantity |-> Get(l1orderbook, "A")]

TransformL2orderbooksMessage(l2orderbook) ==
  Merge(Merge([market |-> Get(l2orderbook, "m"),
               time |-> Get(l2orderbook, "t"),
               sequence |-> Get(l2orderbook, "u")],
              Spread(Get(l2orderbook, "b"), "bids", Get(l2orderbook, "b"))),
        Spread(Get(l2orderbook, "a"), "asks", Get(l2orderbook, "a")))

TransformBalancesMessage(balance) ==
  [wallet |-> Get(balance, "w"), asset |-> Get(balance, "a"),
   quantity |-> Get(balance, "q"), availableForTrade |-> Get(balance, "f"),
   locked |-> Get(balance, "l"), usdValue |-> Get(balance, "d")]

TransformOrderFill(fill) ==
  Merge(Merge([fillId |-> Get(fill, "i"), price |-> Get(fill, "p"),
               quantity |-> Get(fill, "q"), quoteQuantity |-> Get(fill, "Q"),
               time |-> Get(fill, "t"), makerSide |-> Get(fill, "s"),
               sequence |-> Get(fill, "u"), fee |-> Get(fill, "f"),
               feeAsset |-> Get(fill, "a"), liquidity |-> Get(fill, "l"),
               txStatus |-> Get(fill, "S")],
              Spread(Get(fill, "g"), "gas", Get(fill, "g"))),
        Spread(Get(fill, "T"), "txId", Get(fill, "T")))

\* order.F.map(transformOrderFill), evaluated only when order.F is truthy
MapOrderFills(F) ==
  IF F.type = "array"
  THEN Arr([i \in DOMAIN F.value |-> TransformOrderFill(F.value[i])])
  ELSE Undefined

TransformOrdersMessage(order) ==
  Merge(Merge(Merge(Merge(Merge(Merge(
    [market |-> Get(order, "m"), orderId |-> Get(order, "i"),
     clientOrderId |-> Get(order, "c"), wallet |-> Get(order, "w"),
     time |-> Get(order, "t"), timeOfOriginalOrder |-> Get(order, "T"),
     executionType |-> Get(order, "x"), status |-> Get(order, "X"),
     type |-> Get(order, "o"), side |-> Get(order, "S"),
     originalQuantity |-> Get(order, "q"),
     executedQuantity |-> Get(order, "z"),
     cumulativeQuoteQuantity |-> Get(order, "Z"),
     timeInForce |-> Get(order, "f"),
     selfTradePrevention |-> Get(order, "V")],
    Spread(Get(order, "u"), "orderBookSequenceNumber", Get(order, "u"))),
    Spread(Get(order, "Q"), "originalQuoteQuantity", Get(order, "Q"))),
    Spread(Get(order, "v"), "avgExecutionPrice", Get(order, "v"))),
    Spread(Get(order, "p"), "limitOrderPrice", Get(order, "p"))),
    Spread(Get(order, "P"), "stopOrderPrice", Get(order, "P"))),
    Spread(Get(order, "F"), "fills", MapOrderFills(Get(order, "F"))))

\* transformMessage()
TransformMessage(message) ==
  IF message.type \in {"error", "subscriptions"} THEN message
  ELSE CASE message.type = "candles" ->
              [message EXCEPT !.data = TransformCandlesMessage(message.data)]
         [] message.type = "tickers" ->
              [message EXCEPT !.data = TransformTickersMessage(message.data)]
         [] message.type = "l1orderbook" ->
              [message EXCEPT !.data = TransformL1orderbooksMessage(message.data)]
         [] message.type = "l2orderbook" ->
              [message EXCEPT !.data = TransformL2orderbooksMessage(message.data)]
         [] message.type = "trades" ->
              [message EXCEPT !.data = TransformTradesMessage(message.data)]
         [] message.type = "balances" ->
              [message EXCEPT !.data = TransformBalancesMessage(message.data)]
         [] message.type = "orders" ->
              [message EXCEPT !.data = TransformOrdersMessage(message.data)]
         [] OTHER -> message

\* handleWebSocketMessage(event) of socket s: a frame that is not text
\* throws, a text frame is parsed, normalized and given to the response
\* listeners.  event.message is JSON.parse(event.data).
HandleWebSocketMessage(s, event) ==
  /\ sockets[s].readyState \in {"OPEN", "CLOSING"}
  /\ inbound' = event
  /\ resolved' = FALSE
  /\ IF event.kind # "text"
     THEN /\ Fire(<<>>)
          /\ UNCHANGED response
     ELSE /\ Fire(<<"response">>)
          /\ response' = [kind |-> "message",
                          message |-> TransformMessage(event.message)]
  /\ UNCHANGED <<conn, tokens, sub, call>>

\* ---------------------------------------------------- inbound sample frames
\* the objects that have the member key with one of the values, or lack it
Optional(key, values) ==
  {EmptyObject} \cup {[k \in {key} |-> v] : v \in values}

TickerShorts ==
  { Merge([m |-> Str("ETH-USDC"), t |-> Num(1590394),
           o |-> Str("202.11"), h |-> Str("207.58"), l |-> Str("201.20"),
           c |-> Str("206.00"), Q |-> Str("9.50"), v |-> Str("11297.01"),
           q |-> Str("2327207.76"), P |-> Str("1.92"), a |-> Str("206.01"),
           b |-> Str("206.00"), u |-> Num(848728)], n)
    : n \in Optional("n", {Num(0), Num(14201)}) }

PriceLevels == {Arr(<<>>), Arr(<<Arr(<<Str("202.01"), Str("8.35"), Num(1)>>)>>)}

L2OrderBookShorts ==
  { Merge(Merge([m |-> Str("ETH-USDC"), t |-> Num(1590393),
                 u |-> Num(71228110)], b), a)
    : b \in Optional("b", PriceLevels), a \in Optional("a", PriceLevels) }

OrderFillShorts ==
  { Merge(Merge([i |-> Str("974480d0"), p |-> Str("202.74"),
                 q |-> Str("10.00"), Q |-> Str("2027.40"),
                 t |-> Num(1590394), s |-> Str("sell"),
                 u |-> Num(981372), f |-> Str("0.01"), a |-> Str("ETH"),
                 l |-> Str("maker"), S |-> Str("pending")], g), T)
    : g \in Optional("g", {Str("0.0042")}), T \in Optional("T", {Str("0x01d2")}) }

OrderShorts ==
  { Merge(Merge(Merge(Merge(Merge(Merge(
      [m |-> Str("ETH-USDC"), i |-> Str("92782120"), c |-> Str("c-1"),
       w |-> Str("W1"), t |-> Num(1590394), T |-> Num(1590394),
       x |-> Str("fill"), X |-> Str("filled"), o |-> Str("limit"),
       S |-> Str("buy"), q |-> Str("10.00"), z |-> Str("10.00"),
       Z |-> Str("2027.40"), f |-> Str("gtc"), V |-> Str("dc")],
      u), Q), v), p), P), F)
    : u \in Optional("u", {Num(0), Num(71228108)}),
      Q \in Optional("Q", {Str("2027.40")}),
      v \in Optional("v", {Str("202.74")}),
      p \in Optional("p", {Str("202.74")}),
      P \in Optional("P", {Str("197.20")}),
      F \in Optional("F", {Arr(l) : l \in ListsUpTo(OrderFillShorts, MaxFills)}) }

\* one sample of every topic without optional members
OtherMessages ==
  { [type |-> "error", data |-> [code |-> Str("INVALID"), message |-> Str("m")]],
    [type |-> "subscriptions", subscriptions |-> <<[name |-> "tickers"]>>],
    [type |-> "trades",
     data |-> [m |-> Str("ETH-USDC"), i |-> Str("a0b6a470"),
               p |-> Str("202.74"), q |-> Str("10.00"), Q |-> Str("2027.40"),
               t |-> Num(1590394), s |-> Str("sell"), u |-> Num(848778)]],
    [type |-> "candles",
     data |-> [m |-> Str("ETH-USDC"), t |-> Num(1590393),
               i |-> Str("5m"), s |-> Num(1590393),
               e |-> Num(1590393), o |-> Str("202.11"),
               h |-> Str("202.98"), l |-> Str("202.02"), c |-> Str("202.50"),
               v |-> Str("39.22"), n |-> Num(0), u |-> Num(848678)]],
    [type |-> "l1orderbook",
     data |-> [m |-> Str("ETH-USDC"), t |-> Num(1590393),
               b |-> Str("202.00"), B |-> Str("13.88"), a |-> Str("202.01"),
               A |-> Str("8.11")]],
    [type |-> "balances",
     data |-> [w |-> Str("W1"), a |-> Str("USDC"), q |-> Str("38192.94"),
               f |-> Str("26710.66"), l |-> Str("11482.28"),
               d |-> Str("38188.22")]],
    [type |-> "newtopic", data |-> [m |-> Str("ETH-USDC")]] }

InboundMessages ==
  {[type |-> "tickers", data |-> d] : d \in TickerShorts}
    \cup {[type |-> "l2orderbook", data |-> d] : d \in L2OrderBookShorts}
    \cup {[type |-> "orders", data |-> d] : d \in OrderShorts}
    \cup OtherMessages

InboundEvents ==
  {[kind |-> "binary"]} \cup {[kind |-> "text", message |-> m] : m \in InboundMessages}

\* ---------------------------------------------------------- specifications
\* the connection lifecycle with the reconnect policy, and plain sends
Next ==
  \/ Connect
  \/ \E s \in 1..Len(sockets) : WaitForOpen(s)
  \/ Disconnect
  \/ \E s \in 1..Len(sockets) : TransportOpen(s)
  \/ \E s \in 1..Len(sockets) : TransportClosing(s)
  \/ \E s \in 1..Len(sockets) : TransportClose(s)
  \/ \E s \in 1..Len(sockets) : TransportError(s)
  \/ \E i \in 1..Len(timers) : ReconnectTimer(i)
  \/ ListSubscriptions
  \/ \E subscriptions \in UnsubscribeLists : Unsubscribe(subscriptions)
  \/ Return

Spec == Init /\ [][Next]_vars

\* the transport ends the opening handshake of socket s: it opens the socket
\* or closes it
TransportSettles(s) ==
  /\ sockets[s].readyState = "CONNECTING"
  /\ TransportOpen(s) \/ TransportClose(s)

\* the scheduling of the event loop and of the transport: the 100 ms poll of a
\* waiting connect() call keeps running, and the transport does not leave a
\* socket in CONNECTING state forever
Fairness ==
  \A s \in 1..MaxSockets :
    /\ WF_vars(s <= Len(sockets) /\ WaitForOpen(s))
    /\ WF_vars(s <= Len(sockets) /\ TransportSettles(s))

SpecLive == Init /\ [][Next]_vars /\ Fairness

\* subscription routing: a client without the reconnect policy, whose caller
\* waits for one connect() call to resolve before it makes the next
InitSubscribe ==
  /\ Init
  /\ shouldReconnectAutomatically = FALSE

NextSubscribe ==
  \/ Pending = 0 /\ Connect
  \/ \E s \in 1..Len(sockets) : WaitForOpen(s)
  \/ Disconnect
  \/ \E s \in 1..Len(sockets) : TransportOpen(s)
  \/ \E s \in 1..Len(sockets) : TransportClose(s)
  \/ Subscribe
  \/ SubscribeAuthenticated
  \/ SubscribeUnauthenticated
  \/ \E w \in Wallets : TokenResolve(w)
  \/ \E w \in Wallets : TokenReject(w)
  \/ SubscribeSend
  \/ ListSubscriptions
  \/ \E subscriptions \in UnsubscribeLists : Unsubscribe(subscriptions)
  \/ Return

SpecSubscribe == InitSubscribe /\ [][NextSubscribe]_vars

\* inbound dispatch: a client with neither policy nor token manager, and its
\* transport delivering frames
InitTransform ==
  /\ Init
  /\ shouldReconnectAutomatically = FALSE
  /\ hasTokenManager = FALSE

NextTransform ==
  \/ Pending = 0 /\ Connect
  \/ \E s \in 1..Len(sockets) : WaitForOpen(s)
  \/ \E s \in 1..Len(sockets) : TransportOpen(s)
  \/ \E s \in 1..Len(sockets), event \in InboundEvents :
       HandleWebSocketMessage(s, event)

SpecTransform == InitTransform /\ [][NextTransform]_vars

\* inbound dispatch to the response listeners the caller registers, across
\* reconnects: a client with the reconnect policy and no token manager
ResponseEvents ==
  {[kind |-> "binary"]}
    \cup {[kind |-> "text", message |-> m] : m \in OtherMessages}

InitResponse ==
  /\ Init
  /\ shouldReconnectAutomatically = TRUE
  /\ hasTokenManager = FALSE

NextResponse ==
  \/ \E listener \in Listeners : OnResponse(listener)
  \/ Pending = 0 /\ Connect
  \/ \E s \in 1..Len(sockets) : WaitForOpen(s)
  \/ \E s \in 1..Len(sockets) : TransportOpen(s)
  \/ \E s \in 1..Len(sockets) : TransportClose(s)
  \/ \E i \in 1..Len(timers) : ReconnectTimer(i)
  \/ \E s \in 1..Len(sockets), event \in ResponseEvents :
       HandleWebSocketMessage(s, event)

SpecResponse == InitResponse /\ [][NextResponse]_vars

\* the connection lifecycle of a client whose caller registers connect and
\* disconnect listeners
NextListeners ==
  \/ \E listener \in Listeners : OnConnect(listener)
  \/ \E listener \in Listeners : OnDisconnect(listener)
  \/ Connect
  \/ \E s \in 1..Len(sockets) : WaitForOpen(s)
  \/ Disconnect
  \/ \E s \in 1..Len(sockets) : TransportOpen(s)
  \/ \E s \in 1..Len(sockets) : TransportClosing(s)
  \/ \E s \in 1..Len(sockets) : TransportClose(s)
  \/ \E i \in 1..Len(timers) : ReconnectTimer(i)

SpecListeners == Init /\ [][NextListeners]_vars

\* ------------------------------------------------------------------ claims
\* what the claims say of a finished call, stated on the call's input list

SubscribeOps == {"subscribe", "subscribeAuthenticated", "subscribeUnauthenticated"}

\* positions of the authenticated and of the public subscriptions of a list
AuthenticatedAt(l) == {i \in DOMAIN l : l[i].name \in {"balances", "orders"}}

PublicAt(l) == (DOMAIN l) \ AuthenticatedAt(l)

\* the wallets the authenticated subscriptions of a list reference
ReferencedWallets(l) ==
  {l[i].wallet : i \in {j \in AuthenticatedAt(l) : l[j].wallet \in Wallets}}

\* the elements of l at the positions P, in the order of l
RECURSIVE Restrict(_, _)
Restrict(l, P) ==
  IF l = <<>> THEN <<>>
  ELSE LET before == Restrict(SubSeq(l, 1, Len(l) - 1), P)
       IN IF Len(l) \in P THEN Append(before, l[Len(l)]) ELSE before

\* a subscription without its wallet
WithoutWallet(x) == [k \in (DOMAIN x) \ {"wallet"} |-> x[k]]

\* the last finished call is a subscribe whose sends were made
SubscribeSent == call.op \in SubscribeOps /\ call.error = "none"

\* C1: a subscribe that is connected at its sends and whose authenticated
\* subscriptions reference two or more wallets sends one frame with all the
\* public subscriptions and no token if there is a public subscription, then
\* one frame per authenticated subscription in input order, with that
\* subscription alone (whatever it keeps of a wallet member is C3's matter)
\* and the token of its own wallet
C1_OneFramePerAuthenticatedSubscription ==
  (SubscribeSent /\ Cardinality(ReferencedWallets(call.subscriptions)) >= 2) =>
    LET l == call.subscriptions
        public == Restrict(l, PublicAt(l))
        auth == Restrict(l, AuthenticatedAt(l))
        first == IF public = <<>> THEN 0 ELSE 1
    IN /\ Len(call.frames) = first + Len(auth)
       /\ public # <<>> =>
            /\ "token" \notin DOMAIN call.frames[1]
            /\ call.frames[1].subscriptions = public
       /\ \A j \in DOMAIN auth :
            LET frame == call.frames[first + j]
            IN /\ frame.method = "subscribe"
               /\ Len(frame.subscriptions) = 1
               /\ WithoutWallet(frame.subscriptions[1]) = WithoutWallet(auth[j])
               /\ auth[j].wallet \in Wallets =>
                    /\ "token" \in DOMAIN frame
                    /\ frame.token = Str(<<"token", auth[j].wallet>>)

\* C1 happens: a public frame followed by the frames of W1 and of W2, from a
\* call made while connected
C1_Witness ==
  /\ SubscribeSent
  /\ call.connectedAtCall
  /\ ReferencedWallets(call.subscriptions) = {"W1", "W2"}
  /\ PublicAt(call.subscriptions) # {}
  /\ Len(call.frames) = 3

\* C2: a subscribe that is connected at its sends and whose authenticated
\* subscriptions (at least one) all reference one wallet W sends exactly one
\* frame, with every input subscription in input order and the token of W
C2_SingleWalletSingleFrame ==
  \A W \in Wallets :
    (/\ SubscribeSent
     /\ AuthenticatedAt(call.subscriptions) # {}
     /\ \A i \in AuthenticatedAt(call.subscriptions) :
          call.subscriptions[i].wallet = W) =>
      /\ Len(call.frames) = 1
      /\ call.frames[1].method = "subscribe"
      /\ "token" \in DOMAIN call.frames[1]
      /\ call.frames[1].token = Str(<<"token", W>>)
      /\ Len(call.frames[1].subscriptions) = Len(call.subscriptions)
      /\ \A i \in DOMAIN call.subscriptions :
           call.frames[1].subscriptions[i] = WithoutWallet(call.subscriptions[i])

\* C2 happens: a mixed list of public and authenticated subscriptions of one
\* wallet was sent by a call made while connected
C2_Witness ==
  /\ SubscribeSent
  /\ call.connectedAtCall
  /\ Cardinality(ReferencedWallets(call.subscriptions)) = 1
  /\ PublicAt(call.subscriptions) # {}
  /\ Cardinality(AuthenticatedAt(call.subscriptions)) = 2
  /\ Len(call.frames) = 1

\* C3: no subscription of any frame handed to the transport has a wallet
C3_NoWalletOnTheWire ==
  \A f \in DOMAIN call.frames :
    "subscriptions" \in DOMAIN call.frames[f] =>
      \A i \in DOMAIN call.frames[f].subscriptions :
        "wallet" \notin DOMAIN call.frames[f].subscriptions[i]

\* C4: without a token manager, a subscribe with an authenticated subscription
\* fails with the configuration error and hands no frame to the transport; it
\* never gets as far as awaiting tokens
C4_ConfigurationErrorBeforeAnySend ==
  /\ (/\ call.op \in SubscribeOps
      /\ ~hasTokenManager
      /\ AuthenticatedAt(call.subscriptions) # {}) =>
       (call.error = "Configuration" /\ call.frames = <<>>)
  /\ (sub.pc = "awaiting" /\ ~hasTokenManager) =>
       AuthenticatedAt(sub.subscriptions) = {}

\* C4 happens: the call was made while connected, with a public subscription
\* next to the authenticated one
C4_Witness ==
  /\ call.op = "subscribe"
  /\ ~hasTokenManager
  /\ call.connectedAtCall
  /\ AuthenticatedAt(call.subscriptions) # {}
  /\ PublicAt(call.subscriptions) # {}
  /\ call.error = "Configuration"

\* C5 as stated: a call of one of the five methods made while isConnected()
\* is false fails with the not-connected error
C5_NotConnectedForEveryArgument ==
  (call.op # "none" /\ ~call.connectedAtCall) => call.error = "NotConnected"

\* C5 amended: unsubscribe and listSubscriptions fail with the not-connected
\* error exactly when isConnected() is false at the call; a subscribe (also
\* through its two wrappers) of a list that is not empty, that passed its
\* configuration checks and whose token fetches succeeded, fails with the
\* not-connected error exactly when isConnected() is false at the moment of
\* its sends; a subscribe of the empty list sends nothing and does not fail
C5_NotConnectedAtTheSend ==
  [][(call' # call /\ call' # NoCall
        /\ call'.error \notin {"Configuration", "MissingWallet", "TokenFetch"}) =>
       /\ call'.error = "NotConnected" <=>
            /\ ~IsConnected
            /\ ~(call'.op \in SubscribeOps /\ call'.subscriptions = <<>>)
       /\ call'.error = "NotConnected" => call'.frames = <<>>]_vars

\* C5 happens: every method has failed with the not-connected error, subscribe
\* with an authenticated subscription after its token resolved
C5_Witness ==
  /\ call.op \in SubscribeOps
  /\ ~call.connectedAtCall
  /\ AuthenticatedAt(call.subscriptions) # {}
  /\ call.error = "NotConnected"

\* C6: a call's frames are handed to the transport only if the socket is OPEN
\* at the send; otherwise the call fails with the not-connected error, hands
\* over nothing, and nothing is handed over for it later, whatever connects
C6_SendOnlyWhenOpen ==
  [][/\ (call' # call /\ call' # NoCall) =>
          IF IsConnected
          THEN /\ call'.error = "none"
               /\ call'.frames # <<>>
               /\ call'.readyState = "OPEN"
          ELSE /\ call'.error = "NotConnected"
               /\ call'.frames = <<>>
     /\ call.error = "NotConnected" => call' \in {call, NoCall}]_vars

\* C6 happens: a send failed, the client connected afterwards, and the failed
\* call still has handed over nothing
C6_Witness ==
  /\ call.error = "NotConnected"
  /\ call.frames = <<>>
  /\ IsConnected
  /\ resolved

\* C7: when the transport closes a socket that disconnect() has detached (a
\* socket that is not closed and no longer the client's), no reconnect is
\* scheduled and the attempt counter does not change
C7_NoReconnectAfterDisconnect ==
  [][\A s \in 1..Len(sockets) :
       (/\ s # webSocket
        /\ sockets[s].readyState # "CLOSED"
        /\ sockets'[s].readyState = "CLOSED") =>
         (timers' = timers /\ reconnectAttempt' = reconnectAttempt)]_vars

\* C7 happens: with the policy enabled, a socket detached by disconnect() has
\* been closed by the transport and no reconnect is pending
C7_Witness ==
  /\ shouldReconnectAutomatically
  /\ \E s \in 1..Len(sockets) :
       sockets[s].readyState = "CLOSED" /\ ~sockets[s].onclose
  /\ timers = <<>>
  /\ reconnectAttempt = 0

\* C8: every scheduled reconnect uses 2^attempt seconds and adds one to the
\* attempt counter, and the counter is zero after every connect() that resolves
C8_BackoffResetByEveryConnect ==
  [][/\ Len(timers') > Len(timers) =>
          /\ timers'[Len(timers')] = Pow2(reconnectAttempt)
          /\ reconnectAttempt' = reconnectAttempt + 1
     /\ resolved' => reconnectAttempt' = 0]_vars

\* C9: when a connect() call resolves, isConnected() is true and a send
\* made at once does not throw the not-connected error
C9_ConnectResolvesConnected ==
  [][resolved' => (IsConnected' /\ ~ThrowIfDisconnected')]_vars

\* C9 happens: a connect() call that waited for the socket has resolved
C9_Witness ==
  /\ resolved
  /\ fired = <<"connect">>
  /\ IsConnected

\* whether the optional member key of a short-form object is carried as the
\* member name of the long-form object: present together, with the same value
Carried(short, key, long, name) ==
  /\ (name \in DOMAIN long) <=> (key \in DOMAIN short)
  /\ key \in DOMAIN short => long[name] = short[key]

\* the fill list of an order: present together, fill by fill, with the
\* optional members of each fill carried
FillsCarried(short, long) ==
  /\ ("fills" \in DOMAIN long) <=> ("F" \in DOMAIN short)
  /\ "F" \in DOMAIN short =>
       /\ long.fills.type = "array"
       /\ Len(long.fills.value) = Len(short.F.value)
       /\ \A i \in DOMAIN short.F.value :
            /\ Carried(short.F.value[i], "g", long.fills.value[i], "gas")
            /\ Carried(short.F.value[i], "T", long.fills.value[i], "txId")

\* C10: each optional named field of a normalized message is present exactly
\* when its short-form key is present in the input, with the input's value
C10_OptionalFieldsCarried ==
  (inbound.kind = "text" /\ response.kind = "message") =>
    LET short == inbound.message.data
        long == response.message.data
    IN CASE inbound.message.type = "tickers" ->
              Carried(short, "n", long, "numTrades")
         [] inbound.message.type = "l2orderbook" ->
              /\ Carried(short, "b", long, "bids")
              /\ Carried(short, "a", long, "asks")
         [] inbound.message.type = "orders" ->
              /\ Carried(short, "u", long, "orderBookSequenceNumber")
              /\ Carried(short, "Q", long, "originalQuoteQuantity")
              /\ Carried(short, "v", long, "avgExecutionPrice")
              /\ Carried(short, "p", long, "limitOrderPrice")
              /\ Carried(short, "P", long, "stopOrderPrice")
              /\ FillsCarried(short, long)
         [] OTHER -> TRUE

\* C11: every subscription that subscribe passed through
\* removeWalletFromSdkSubscription (all of them, on the single-wallet path)
\* goes out without a wallet member and with every other member of the input
\* unchanged, and stripping the result again changes nothing
C11_StripWalletKeepsTheRest ==
  (SubscribeSent /\ Cardinality(ReferencedWallets(call.subscriptions)) = 1) =>
    \A i \in DOMAIN call.subscriptions :
      LET input == call.subscriptions[i]
          stripped == call.frames[1].subscriptions[i]
      IN /\ "wallet" \notin DOMAIN stripped
         /\ DOMAIN stripped = (DOMAIN input) \ {"wallet"}
         /\ \A k \in DOMAIN stripped : stripped[k] = input[k]
         /\ RemoveWalletFromSdkSubscription(stripped) = stripped

\* the number of getToken requests a list of requests holds for wallet w
RequestsFor(requests, w) == Cardinality({i \in DOMAIN requests : requests[i] = w})

\* C12: a subscribe call asks getToken once for each wallet its authenticated
\* subscriptions reference and for nothing else; it hands frames to the
\* transport only in the step that follows the last of its token fetches
\* resolving; and when a fetch fails the call is over with that error and no
\* frame
C12_TokensAllOrNothing ==
  [][/\ sub'.pc = "awaiting" =>
          /\ \A w \in ReferencedWallets(sub'.subscriptions) :
               RequestsFor(sub'.requested, w) = 1
          /\ Range(sub'.requested) = ReferencedWallets(sub'.subscriptions)
     /\ (call' # call /\ call'.op \in SubscribeOps /\ call'.frames # <<>>) =>
          /\ sub.pc = "awaiting"
          /\ sub.pending = {}
          /\ \A w \in ReferencedWallets(call'.subscriptions) :
               tokens[w] = TokenOf(w)
     /\ (/\ sub.pc = "awaiting" /\ sub.pending # {}
         /\ call' # call /\ call'.op \in SubscribeOps) =>
          /\ call'.error = "TokenFetch"
          /\ call'.frames = <<>>
          /\ sub' = NoSub]_vars

\* C12 happens: a call with three authenticated subscriptions of two wallets,
\* one of them referenced twice, has sent its frames
C12_Witness ==
  /\ SubscribeSent
  /\ ReferencedWallets(call.subscriptions) = {"W1", "W2"}
  /\ Cardinality(AuthenticatedAt(call.subscriptions)) = 3
  /\ call.frames # <<>>

\* the number of times the last step called listener l of the named set
Calls(name, l) ==
  Cardinality({i \in DOMAIN invoked :
                 invoked[i] = [set |-> name, listener |-> l]})

\* the last step called every listener registered in the named set once,
\* and no other listener
EachOnce(name) ==
  /\ Len(invoked) = Len(listeners[name])
  /\ \A l \in Listeners :
       Calls(name, l) = IF l \in Range(listeners[name]) THEN 1 ELSE 0

\* C13: disconnect() without a socket leaves the client's state as it is and
\* calls no listener; disconnect() with a socket that is connecting or open
\* unbinds its close handler, closes it, clears the handle so that
\* isConnected() is false, and calls each disconnect listener once
C13_Disconnect ==
  [][Disconnect =>
       IF webSocket = 0
       THEN /\ UNCHANGED <<shouldReconnectAutomatically, hasTokenManager,
                           reconnectAttempt, webSocket, sockets, timers,
                           connects, listeners, tokens, sub, call>>
            /\ invoked' = <<>>
       ELSE sockets[webSocket].readyState \in {"CONNECTING", "OPEN"} =>
              /\ ~sockets'[webSocket].onclose
              /\ sockets'[webSocket].readyState = "CLOSING"
              /\ webSocket' = 0
              /\ ~IsConnected'
              /\ EachOnce("disconnect")']_vars

\* C13 happens: disconnect() has closed an open socket of a client with two
\* disconnect listeners
C13_Witness ==
  /\ disconnected
  /\ webSocket = 0
  /\ Len(listeners.disconnect) = 2
  /\ Len(invoked) = 2
  /\ \E s \in 1..Len(sockets) :
       /\ sockets[s].readyState = "CLOSING"
       /\ ~sockets[s].onclose
       /\ sockets[s].connectFired = 1

\* C14: when the transport closes a socket whose close handler is bound the
\* handle is cleared, so that isConnected() is false, each disconnect listener
\* is called once, and a reconnect is scheduled exactly if the policy is
\* enabled; with the policy disabled no timer is ever pending and a socket is
\* created only by a step of the caller's connect()
C14_TransportClose ==
  [][/\ \A s \in 1..Len(sockets) :
          (TransportClose(s) /\ sockets[s].onclose) =>
            /\ webSocket' = 0
            /\ ~IsConnected'
            /\ EachOnce("disconnect")'
            /\ IF shouldReconnectAutomatically
               THEN Len(timers') = Len(timers) + 1
               ELSE timers' = timers
     /\ ~shouldReconnectAutomatically =>
          /\ timers' = <<>>
          /\ Len(sockets') > Len(sockets) => Connect]_vars

\* C14 happens: the transport has closed the open socket of a client with the
\* policy enabled and two disconnect listeners, and a reconnect is scheduled
C14_Witness ==
  /\ shouldReconnectAutomatically
  /\ ~disconnected
  /\ webSocket = 0
  /\ fired = <<"disconnect">>
  /\ Len(invoked) = 2
  /\ timers = <<1>>
  /\ \E s \in 1..Len(sockets) :
       sockets[s].readyState = "CLOSED" /\ sockets[s].connectFired = 1

\* C15: no connect() call stays pending forever: whenever calls wait for a
\* socket, a time comes at which none waits for it any more
C15_ConnectNeverPendingForever ==
  \A s \in 1..MaxSockets :
    (s <= Len(connects) /\ connects[s] > 0)
      ~> (s <= Len(connects) /\ connects[s] = 0)

LiveSockets ==
  {s \in 1..Len(sockets) : sockets[s].readyState \in {"CONNECTING", "OPEN"}}

\* C17: at most one of the sockets the client created is connecting or open
C17_OneLiveSocket == Cardinality(LiveSockets) <= 1

\* C17 happens: the client has let go of a socket that is still closing and
\* is connected through a second one
C17_Witness ==
  /\ Len(sockets) = 2
  /\ sockets[1].readyState = "CLOSING"
  /\ webSocket = 2
  /\ IsConnected

\* C18 as stated: a subscribe that is connected at its sends, of a list
\* without authenticated subscription, sends exactly one frame, with all the
\* subscriptions as given and no token
C18_ZeroWalletsOneFrame ==
  (SubscribeSent /\ IsConnected /\ AuthenticatedAt(call.subscriptions) = {}) =>
    /\ Len(call.frames) = 1
    /\ call.frames[1].method = "subscribe"
    /\ call.frames[1].subscriptions = call.subscriptions
    /\ "token" \notin DOMAIN call.frames[1]

\* C18 amended: such a subscribe of a list that is not empty sends exactly one
\* frame, with all the subscriptions as given and no token; of the empty list
\* it sends no frame
C18_ZeroWalletsOneFrameUnlessEmpty ==
  (SubscribeSent /\ AuthenticatedAt(call.subscriptions) = {}) =>
    IF call.subscriptions = <<>>
    THEN call.frames = <<>>
    ELSE /\ Len(call.frames) = 1
         /\ call.frames[1].method = "subscribe"
         /\ call.frames[1].subscriptions = call.subscriptions
         /\ "token" \notin DOMAIN call.frames[1]

\* C18 happens: a call made while connected has sent its two public
\* subscriptions in one frame
C18_Witness ==
  /\ SubscribeSent
  /\ call.connectedAtCall
  /\ Len(call.subscriptions) = 2
  /\ AuthenticatedAt(call.subscriptions) = {}
  /\ Len(call.frames) = 1

\* C19: from the caller's disconnect() until its next connect(), no step
\* creates a socket and the client is not connected
C19_NoReconnectAfterExplicitDisconnect ==
  [][disconnected' => (Len(sockets') = Len(sockets) /\ ~IsConnected')]_vars

\* C20: the connect listeners of a client that has some are dispatched for a
\* socket only if they were not dispatched for it before, and the dispatch
\* calls each of them once
C20_ConnectListenersOncePerSocket ==
  [][\A s \in 1..Len(sockets) :
       (/\ listeners.connect # <<>>
        /\ sockets'[s].connectFired > sockets[s].connectFired) =>
         /\ sockets[s].connectFired = 0
         /\ EachOnce("connect")']_vars
====
